---- MODULE Spec2Model ----
(***************************************************************************)
(* PPK2PowerSupply (meshtastic/powermon/ppk2.py): the caller's thread and  *)
(* the "ppk2 measurement" thread sharing self.current_measurements and     *)
(* self.measuring, and the device commands both send through self.r.       *)
(*                                                                         *)
(* A Python list is an object with identity: `heap` maps list identities   *)
(* to their contents and current_measurements holds the identity the       *)
(* attribute refers to.  A thread switch can happen between any two        *)
(* bytecodes, so every statement that touches shared state more than once  *)
(* (`+=` on an attribute, the two attribute reads of the average, the read *)
(* and the write of the reset) is split at those points.  A single call    *)
(* into C on a list of floats (min, max, sum, len, list.extend) runs       *)
(* without a switch and is one step.                                       *)
(*                                                                         *)
(* Samples are microampere readings; a returned statistic is the rational  *)
(* num/den, kept as the pair it is computed from.                          *)
(***************************************************************************)
EXTENDS Integers, Sequences, FiniteSets, TLC

\* ---------------------------------------------------------------- bounds
MaxLen == 3        \* longest list the measurement loop builds
MaxChunk == 2      \* most samples one get_samples call decodes
MaxDevs == 2       \* most devices list_devices reports
MaxStops == 2      \* most stop_measuring commands (close calls) explored
NumLists == 3      \* list identities: attribute, loop operand, fresh list
MaxStatLen == 3    \* longest buffer handed to the statistics on their own

Samples == {1000, 3000}            \* decoded readings, microamperes
StatSamples == {0, 1000, 2000, 3000}
Voltages == {3300000, 5000900}     \* self.v, in microvolts
ListIds == 1..NumLists
Null == 0

VARIABLES
    pc,                    \* caller thread: position in the running method
    op,                    \* caller thread: the method being run
    arg,                   \* caller thread: the method's argument
    ret,                   \* caller thread: value returned / exception raised
    ctmp,                  \* caller thread: list reference on its stack
    cval,                  \* caller thread: number on its stack
    calls,                 \* device commands the running method has issued
    seen,                  \* buffer contents that existed during the call
    r,                     \* self.r, the device handle
    v,                     \* self.v, the configured voltage (set by the caller)
    measuring,             \* self.measuring
    current_measurements,  \* self.current_measurements (a list identity)
    heap,                  \* contents of every list object
    lpc,                   \* measurement thread: position in measurement_loop
    ltmp,                  \* measurement thread: list reference on its stack
    samples,               \* measurement thread: local `samples`
    startCount,            \* start_measuring commands the device received
    stopCount,             \* stop_measuring commands the device received
    devVoltage,            \* source voltage programmed on the device (mV)
    devMode,               \* device mode last commanded
    closed                 \* base close() has run

vars == <<pc, op, arg, ret, ctmp, cval, calls, seen, r, v, measuring,
          current_measurements, heap, lpc, ltmp, samples, startCount,
          stopCount, devVoltage, devMode, closed>>

callerLocals == <<op, arg, ret, ctmp, cval, calls, seen>>
loopVars == <<lpc, ltmp, samples>>
bufVars == <<current_measurements, heap>>
devVars == <<startCount, stopCount, devVoltage, devMode>>

\* ------------------------------------------------------------- helpers
NoRet == [kind |-> "none"]
Returned(x) == [kind |-> "value", val |-> x]
Raised(e) == [kind |-> "raise", err |-> e]
Ratio(n, d) == [num |-> n, den |-> d]

RECURSIVE Sum(_)
Sum(s) == IF s = <<>> THEN 0 ELSE s[1] + Sum(Tail(s))

Elems(s) == {s[i] : i \in 1..Len(s)}
Min(s) == CHOOSE x \in Elems(s) : \A y \in Elems(s) : x <= y
Max(s) == CHOOSE x \in Elems(s) : \A y \in Elems(s) : x >= y
\* (mutation: element [0] instead of element [-1])
First(s) == s[1]
\* element [-1] of a list
Last(s) == s[Len(s)]

SeqsUpTo(S, n) == UNION {[1..k -> S] : k \in 0..n}

\* the buffer: the list self.current_measurements refers to
Buffer == heap[current_measurements]

ThreadAlive == lpc \in {"check", "poll", "decode", "load", "extend", "store", "sleep"}

\* list objects nobody refers to any more are dropped
Collect(h, live) == [i \in ListIds |-> IF i \in live THEN h[i] ELSE <<>>]
Fresh(live) == CHOOSE i \in ListIds : i \notin live /\ \A j \in ListIds : j \notin live => i <= j

\* a reader or reset call in progress records every content the buffer takes
Reading == pc \in {"min_call", "max_call", "avg_sum", "avg_load", "avg_len",
                   "reset_sub", "reset_store"}
Note(h, cm) == IF Reading THEN seen \cup {h[cm]} ELSE seen

Init ==
    /\ pc = "new" /\ op = "none" /\ arg = Null /\ ret = NoRet
    /\ ctmp = Null /\ cval = 0 /\ calls = <<>> /\ seen = {}
    /\ r = "none" /\ v \in Voltages /\ measuring = FALSE
    /\ current_measurements = Null
    /\ heap = [i \in ListIds |-> <<>>]
    /\ lpc = "none" /\ ltmp = Null /\ samples = <<>>
    /\ startCount = 0 /\ stopCount = 0
    /\ devVoltage = Null /\ devMode = "none"
    /\ closed = FALSE

\* ------------------------------------------------- __init__ (lines 18-48)
\* (mutation: with several devices found, the first one is taken)
DiscoverFirst ==
    /\ pc = "new"
    /\ \E given \in BOOLEAN, n \in 0..MaxDevs :
         /\ op' = "open"
         /\ arg' = [portName |-> given, devs |-> IF given THEN Null ELSE n]
         /\ IF given \/ n >= 1
              THEN pc' = "connect" /\ ret' = NoRet
              ELSE pc' = "failed" /\ ret' = Raised("No PPK2 devices found")
    /\ UNCHANGED <<ctmp, cval, calls, seen, r, v, measuring, bufVars, loopVars,
                   devVars, closed>>

\* lines 23-32: with no portName, list_devices must report exactly one device
Discover ==
    /\ pc = "new"
    /\ \E given \in BOOLEAN, n \in 0..MaxDevs :
         /\ op' = "open"
         /\ arg' = [portName |-> given, devs |-> IF given THEN Null ELSE n]
         /\ IF given \/ n = 1
              THEN pc' = "connect" /\ ret' = NoRet
              ELSE /\ pc' = "failed"
                   /\ ret' = IF n = 0
                               THEN Raised("No PPK2 devices found")
                               ELSE Raised("Multiple PPK2 devices found")
    /\ UNCHANGED <<ctmp, cval, calls, seen, r, v, measuring, bufVars, loopVars,
                   devVars, closed>>

\* line 34: PPK2_MP(portName) opens the serial port, or raises
Connect ==
    /\ pc = "connect"
    /\ \/ pc' = "modifiers" /\ r' = "open" /\ ret' = ret
          /\ calls' = Append(calls, <<"PPK2_MP">>)
       \/ pc' = "failed" /\ r' = r /\ ret' = Raised("device") /\ calls' = calls
    /\ UNCHANGED <<op, arg, ctmp, cval, seen, v, measuring, bufVars, loopVars,
                   devVars, closed>>

\* line 35: r.get_modifiers()
GetModifiers ==
    /\ pc = "modifiers"
    /\ \/ pc' = "start" /\ ret' = ret /\ calls' = Append(calls, <<"get_modifiers">>)
       \/ pc' = "failed" /\ ret' = Raised("device") /\ calls' = calls
    /\ UNCHANGED <<op, arg, ctmp, cval, seen, r, v, measuring, bufVars, loopVars,
                   devVars, closed>>

\* line 37: self.r.start_measuring()
StartMeasuring ==
    /\ pc = "start"
    /\ \/ /\ pc' = "initbuf" /\ ret' = ret
          /\ calls' = Append(calls, <<"start_measuring">>)
          /\ startCount' = startCount + 1
       \/ pc' = "failed" /\ ret' = Raised("device") /\ calls' = calls
          /\ startCount' = startCount
    /\ UNCHANGED <<op, arg, ctmp, cval, seen, r, v, measuring, bufVars, loopVars,
                   stopCount, devVoltage, devMode, closed>>

\* lines 38-39: current_measurements = [0.0]; measuring = True
InitBuffer ==
    /\ pc = "initbuf"
    /\ LET id == Fresh({}) IN
         /\ current_measurements' = id
         /\ heap' = [heap EXCEPT ![id] = <<0>>]
    /\ measuring' = TRUE
    /\ pc' = "thread"
    /\ UNCHANGED <<callerLocals, r, v, loopVars, devVars, closed>>

\* lines 41-44: the measurement thread is created and started
StartThread ==
    /\ pc = "thread"
    /\ lpc' = "check"
    /\ pc' = "super"
    /\ UNCHANGED <<callerLocals, r, v, measuring, bufVars, ltmp, samples,
                   devVars, closed>>

\* line 48: super().__init__(), called late; the constructor returns after it
SuperInit ==
    /\ pc = "super"
    /\ \/ pc' = "ret" /\ ret' = Returned("open")
       \/ pc' = "failed" /\ ret' = Raised("base")
    /\ UNCHANGED <<op, arg, ctmp, cval, calls, seen, r, v, measuring, bufVars,
                   loopVars, devVars, closed>>

\* the method's result reaches the caller, who may call the next method
Return ==
    /\ pc = "ret"
    /\ pc' = "idle"
    /\ op' = "none" /\ arg' = Null /\ ret' = NoRet
    /\ ctmp' = Null /\ cval' = 0 /\ calls' = <<>> /\ seen' = {}
    /\ UNCHANGED <<r, v, measuring, bufVars, loopVars, devVars, closed>>

\* ----------------------------------------- measurement_loop (lines 50-57)
\* (mutation: `while True`, the stop signal is never looked at)
LoopCheckForever ==
    /\ lpc = "check"
    /\ lpc' = "poll"
    /\ UNCHANGED <<pc, callerLocals, r, v, measuring, bufVars, ltmp, samples,
                   devVars, closed>>

\* line 52: while self.measuring
LoopCheck ==
    /\ lpc = "check"
    /\ lpc' = IF measuring THEN "poll" ELSE "done"
    /\ UNCHANGED <<pc, callerLocals, r, v, measuring, bufVars, ltmp, samples,
                   devVars, closed>>

\* (mutation: the poll step looks at the stop signal and leaves the loop)
LoopPollOrLeave ==
    /\ lpc = "poll"
    /\ IF measuring THEN lpc' \in {"sleep", "decode", "crashed"} ELSE lpc' = "done"
    /\ UNCHANGED <<pc, callerLocals, r, v, measuring, bufVars, ltmp, samples,
                   devVars, closed>>

\* lines 53-54: read_data = self.r.get_data(); empty, a chunk, or an exception
LoopPoll ==
    /\ lpc = "poll"
    /\ lpc' \in {"sleep", "decode", "crashed"}
    /\ UNCHANGED <<pc, callerLocals, r, v, measuring, bufVars, ltmp, samples,
                   devVars, closed>>

\* line 55: samples, _ = self.r.get_samples(read_data); may raise
LoopDecode ==
    /\ lpc = "decode"
    /\ \/ /\ \E s \in SeqsUpTo(Samples, MaxChunk) :
               /\ Len(Buffer) + Len(s) <= MaxLen
               /\ samples' = s
          /\ lpc' = "load"
       \/ lpc' = "crashed" /\ samples' = samples
    /\ UNCHANGED <<pc, callerLocals, r, v, measuring, bufVars, ltmp, devVars,
                   closed>>

\* line 56, `self.current_measurements += samples`: the attribute is read,
LoopLoad ==
    /\ lpc = "load"
    /\ ltmp' = current_measurements
    /\ lpc' = "extend"
    /\ UNCHANGED <<pc, callerLocals, r, v, measuring, bufVars, samples, devVars,
                   closed>>

\* the list it referred to is extended in place (list.__iadd__),
LoopExtend ==
    /\ lpc = "extend"
    /\ heap' = [heap EXCEPT ![ltmp] = heap[ltmp] \o samples]
    /\ seen' = Note(heap', current_measurements)
    /\ lpc' = "store"
    /\ UNCHANGED <<pc, op, arg, ret, ctmp, cval, calls, r, v, measuring,
                   current_measurements, ltmp, samples, devVars, closed>>

\* and that list is stored back into the attribute; `samples` stays bound
\* until then and is not read again
LoopStore ==
    /\ lpc = "store"
    /\ current_measurements' = ltmp
    /\ heap' = Collect(heap, {ltmp} \cup ({ctmp} \ {Null}))
    /\ seen' = Note(heap', ltmp)
    /\ ltmp' = Null
    /\ samples' = <<>>
    /\ lpc' = "sleep"
    /\ UNCHANGED <<pc, op, arg, ret, ctmp, cval, calls, r, v, measuring, devVars,
                   closed>>

\* line 57: time.sleep(0.001)
LoopSleep ==
    /\ lpc = "sleep"
    /\ lpc' = "check"
    /\ UNCHANGED <<pc, callerLocals, r, v, measuring, bufVars, ltmp, samples,
                   devVars, closed>>

Loop == LoopCheck \/ LoopPoll \/ LoopDecode \/ LoopLoad \/ LoopExtend
        \/ LoopStore \/ LoopSleep

\* --------------------------------------------- statistics (lines 59-73)
LoopRefs == {ltmp} \ {Null}

\* (mutation: get_min_current_mA computed with max(), as its docstring says)
MinOfMax(l) == Ratio(Max(l), 1000)
\* (mutation: the average left in microamperes)
AverageUnscaled(total, n) == Ratio(total, n)
\* min(l) / 1000, max(l) / 1000, (total / n) / 1000 as exact rationals
MinOf(l) == Ratio(Min(l), 1000)
MaxOf(l) == Ratio(Max(l), 1000)
AverageOf(total, n) == Ratio(total, n * 1000)

\* line 61: the attribute is read ...
MinCall ==
    /\ pc = "idle"
    /\ op' = "get_min_current_mA" /\ pc' = "min_call"
    /\ ctmp' = current_measurements
    /\ seen' = {Buffer}
    /\ UNCHANGED <<arg, ret, cval, calls, r, v, measuring, bufVars, loopVars,
                   devVars, closed>>

\* ... and min() of that list, divided by 1000, is returned
get_min_current_mA ==
    /\ pc = "min_call"
    /\ ret' = Returned(MinOf(heap[ctmp]))
    /\ ctmp' = Null
    /\ heap' = Collect(heap, {current_measurements} \cup LoopRefs)
    /\ pc' = "ret"
    /\ UNCHANGED <<op, arg, cval, calls, seen, r, v, measuring,
                   current_measurements, loopVars, devVars, closed>>

\* (mutation: the maximum is "since last call", the call restarts the history)
GetMaxAndRestart ==
    /\ pc = "max_call"
    /\ ret' = Returned(MaxOf(heap[ctmp]))
    /\ ctmp' = Null
    /\ heap' = Collect([heap EXCEPT ![current_measurements] = <<Last(@)>>],
                       {current_measurements} \cup LoopRefs)
    /\ pc' = "ret"
    /\ UNCHANGED <<op, arg, cval, calls, seen, r, v, measuring,
                   current_measurements, loopVars, devVars, closed>>

\* line 65
MaxCall ==
    /\ pc = "idle"
    /\ op' = "get_max_current_mA" /\ pc' = "max_call"
    /\ ctmp' = current_measurements
    /\ seen' = {Buffer}
    /\ UNCHANGED <<arg, ret, cval, calls, r, v, measuring, bufVars, loopVars,
                   devVars, closed>>

get_max_current_mA ==
    /\ pc = "max_call"
    /\ ret' = Returned(MaxOf(heap[ctmp]))
    /\ ctmp' = Null
    /\ heap' = Collect(heap, {current_measurements} \cup LoopRefs)
    /\ pc' = "ret"
    /\ UNCHANGED <<op, arg, cval, calls, seen, r, v, measuring,
                   current_measurements, loopVars, devVars, closed>>

\* line 70: the attribute is read for sum(),
AvgCall ==
    /\ pc = "idle"
    /\ op' = "get_average_current_mA" /\ pc' = "avg_sum"
    /\ ctmp' = current_measurements
    /\ seen' = {Buffer}
    /\ UNCHANGED <<arg, ret, cval, calls, r, v, measuring, bufVars, loopVars,
                   devVars, closed>>

\* sum() of that list is taken,
AvgSum ==
    /\ pc = "avg_sum"
    /\ cval' = Sum(heap[ctmp])
    /\ ctmp' = Null
    /\ heap' = Collect(heap, {current_measurements} \cup LoopRefs)
    /\ pc' = "avg_load"
    /\ UNCHANGED <<op, arg, ret, calls, seen, r, v, measuring,
                   current_measurements, loopVars, devVars, closed>>

\* the attribute is read a second time for len(),
AvgLoad ==
    /\ pc = "avg_load"
    /\ ctmp' = current_measurements
    /\ pc' = "avg_len"
    /\ UNCHANGED <<op, arg, ret, cval, calls, seen, r, v, measuring, bufVars,
                   loopVars, devVars, closed>>

\* and lines 70-73: (sum / len) / 1000 is returned
get_average_current_mA ==
    /\ pc = "avg_len"
    /\ ret' = Returned(AverageOf(cval, Len(heap[ctmp])))
    /\ ctmp' = Null /\ cval' = 0
    /\ heap' = Collect(heap, {current_measurements} \cup LoopRefs)
    /\ pc' = "ret"
    /\ UNCHANGED <<op, arg, calls, seen, r, v, measuring, current_measurements,
                   loopVars, devVars, closed>>

\* ----------------------------------- reset_measurements (lines 75-78)
\* line 78, right-hand side: the attribute is read,
ResetCall ==
    /\ pc = "idle"
    /\ op' = "reset_measurements" /\ pc' = "reset_sub"
    /\ ctmp' = current_measurements
    /\ seen' = {Buffer}
    /\ UNCHANGED <<arg, ret, cval, calls, r, v, measuring, bufVars, loopVars,
                   devVars, closed>>

\* element [-1] of that list is taken,
ResetLast ==
    /\ pc = "reset_sub"
    /\ cval' = Last(heap[ctmp])
    /\ ctmp' = Null
    /\ heap' = Collect(heap, {current_measurements} \cup LoopRefs)
    /\ pc' = "reset_store"
    /\ UNCHANGED <<op, arg, ret, calls, seen, r, v, measuring,
                   current_measurements, loopVars, devVars, closed>>

\* (mutation: the reset empties the list)
KeptNothing(x) == <<>>
\* the new list of line 78: [ last ]
Kept(x) == <<x>>

\* and a new list holding it is stored into the attribute
reset_measurements ==
    /\ pc = "reset_store"
    /\ LET id == Fresh({current_measurements} \cup LoopRefs) IN
         /\ current_measurements' = id
         /\ heap' = Collect([heap EXCEPT ![id] = Kept(cval)], {id} \cup LoopRefs)
    /\ cval' = 0
    /\ ret' = Returned("None")
    /\ pc' = "ret"
    /\ UNCHANGED <<op, arg, ctmp, calls, seen, r, v, measuring, loopVars,
                   devVars, closed>>

\* ------------------------------------------------ close (lines 80-85)
\* (mutation: close() flips the flag instead of clearing it)
CloseCallToggle ==
    /\ pc = "idle"
    /\ stopCount < MaxStops
    /\ op' = "close" /\ pc' = "close_stop"
    /\ measuring' = ~measuring
    /\ UNCHANGED <<arg, ret, ctmp, cval, calls, seen, r, v, bufVars, loopVars,
                   devVars, closed>>

\* line 82: self.measuring = False
CloseCall ==
    /\ pc = "idle"
    /\ stopCount < MaxStops
    /\ op' = "close" /\ pc' = "close_stop"
    /\ measuring' = FALSE
    /\ UNCHANGED <<arg, ret, ctmp, cval, calls, seen, r, v, bufVars, loopVars,
                   devVars, closed>>

\* line 83: self.r.stop_measuring(); may raise, which ends close
StopMeasuring ==
    /\ pc = "close_stop"
    /\ \/ /\ pc' = "close_join" /\ ret' = ret
          /\ calls' = Append(calls, <<"stop_measuring">>)
          /\ stopCount' = stopCount + 1
       \/ /\ pc' = "ret" /\ ret' = Raised("device")
          /\ calls' = calls /\ stopCount' = stopCount
    /\ UNCHANGED <<op, arg, ctmp, cval, seen, r, v, measuring, bufVars, loopVars,
                   startCount, devVoltage, devMode, closed>>

\* (mutation: the join is left out, or does not wait)
JoinNoWait ==
    /\ pc = "close_join"
    /\ pc' = "close_super"
    /\ calls' = Append(calls, <<"join">>)
    /\ UNCHANGED <<op, arg, ret, ctmp, cval, seen, r, v, measuring, bufVars,
                   loopVars, devVars, closed>>

\* (mutation: join(timeout), which also returns with the thread still alive)
JoinTimeout ==
    /\ pc = "close_join"
    /\ ThreadAlive \/ ~ThreadAlive
    /\ pc' = "close_super"
    /\ calls' = Append(calls, <<"join">>)
    /\ UNCHANGED <<op, arg, ret, ctmp, cval, seen, r, v, measuring, bufVars,
                   loopVars, devVars, closed>>

\* line 84: self.measurement_thread.join() returns once the thread has ended
Join ==
    /\ pc = "close_join"
    /\ ~ThreadAlive
    /\ pc' = "close_super"
    /\ calls' = Append(calls, <<"join">>)
    /\ UNCHANGED <<op, arg, ret, ctmp, cval, seen, r, v, measuring, bufVars,
                   loopVars, devVars, closed>>

\* line 85: super().close() releases the device handle
SuperClose ==
    /\ pc = "close_super"
    /\ r' = "released"
    /\ closed' = TRUE
    /\ calls' = Append(calls, <<"base_close">>)
    /\ ret' = Returned("None")
    /\ pc' = "ret"
    /\ UNCHANGED <<op, arg, ctmp, cval, seen, v, measuring, bufVars, loopVars,
                   devVars>>

\* ------------------------------------------ setIsSupply (lines 87-100)
\* int(self.v * 1000), self.v being kept in microvolts here
MilliVolts(x) == x \div 1000

\* (mutation: the voltage is programmed only when supply mode is asked for)
SetSourceVoltageIfSupply ==
    /\ pc = "idle"
    /\ op' = "setIsSupply"
    /\ \E s \in BOOLEAN :
         /\ arg' = s
         /\ \/ /\ s
               /\ devVoltage' = MilliVolts(v)
               /\ calls' = <<<<"set_source_voltage", MilliVolts(v)>>>>
               /\ pc' = "sis_mode" /\ ret' = ret
            \/ /\ ~s
               /\ pc' = "sis_mode" /\ ret' = ret
               /\ calls' = calls /\ devVoltage' = devVoltage
            \/ /\ pc' = "ret" /\ ret' = Raised("device")
               /\ calls' = calls /\ devVoltage' = devVoltage
    /\ UNCHANGED <<ctmp, cval, seen, r, v, measuring, bufVars, loopVars,
                   startCount, stopCount, devMode, closed>>

\* lines 90-92: set_source_voltage(int(self.v * 1000)); may raise
SetSourceVoltage ==
    /\ pc = "idle"
    /\ op' = "setIsSupply"
    /\ \E s \in BOOLEAN : arg' = s
    /\ \/ /\ devVoltage' = MilliVolts(v)
          /\ calls' = <<<<"set_source_voltage", MilliVolts(v)>>>>
          /\ pc' = "sis_mode" /\ ret' = ret
       \/ /\ pc' = "ret" /\ ret' = Raised("device")
          /\ calls' = calls /\ devVoltage' = devVoltage
    /\ UNCHANGED <<ctmp, cval, seen, r, v, measuring, bufVars, loopVars,
                   startCount, stopCount, devMode, closed>>

\* the mode command for argument s
ModeCommand(s) == IF ~s THEN "use_ampere_meter" ELSE "use_source_meter"

\* lines 95-100: use_ampere_meter() or use_source_meter(); may raise
UseMeter ==
    /\ pc = "sis_mode"
    /\ \/ /\ devMode' = ModeCommand(arg)
          /\ calls' = Append(calls, <<ModeCommand(arg)>>)
          /\ ret' = Returned("None")
       \/ /\ ret' = Raised("device")
          /\ calls' = calls /\ devMode' = devMode
    /\ pc' = "ret"
    /\ UNCHANGED <<op, arg, ctmp, cval, seen, r, v, measuring, bufVars, loopVars,
                   startCount, stopCount, devVoltage, closed>>

\* -------------------------------------- powerOn / powerOff (102-108)
\* lines 104, 108: self.r.toggle_DUT_power(state); may raise
TogglePower(state) ==
    /\ pc = "idle"
    /\ \/ /\ calls' = <<<<"toggle_DUT_power", state>>>>
          /\ ret' = Returned("None")
       \/ /\ ret' = Raised("device")
          /\ calls' = calls
    /\ pc' = "ret"
    /\ UNCHANGED <<arg, ctmp, cval, seen, r, v, measuring, bufVars, loopVars,
                   devVars, closed>>

powerOn == TogglePower("ON") /\ op' = "powerOn"
powerOff == TogglePower("OFF") /\ op' = "powerOff"

\* ------------------------------------------------------ specifications
Next ==
    \/ Discover \/ Connect \/ GetModifiers \/ StartMeasuring \/ InitBuffer
    \/ StartThread \/ SuperInit \/ Return
    \/ LoopCheck \/ LoopPoll \/ LoopDecode \/ LoopLoad \/ LoopExtend
    \/ LoopStore \/ LoopSleep
    \/ MinCall \/ get_min_current_mA \/ MaxCall \/ get_max_current_mA
    \/ AvgCall \/ AvgSum \/ AvgLoad \/ get_average_current_mA
    \/ ResetCall \/ ResetLast \/ reset_measurements
    \/ CloseCall \/ StopMeasuring \/ Join \/ SuperClose
    \/ SetSourceVoltage \/ UseMeter \/ powerOn \/ powerOff

Spec == Init /\ [][Next]_vars

\* The two threads are scheduled by the operating system: a thread that can
\* take its next step eventually takes it.  The caller is not obliged to
\* call anything, but a close() that is running goes on.
CloseSteps == StopMeasuring \/ Join \/ SuperClose
FairSpec == Spec /\ WF_vars(Loop) /\ WF_vars(CloseSteps)

\* The statistics and the reset on their own: the engine is running with any
\* buffer the loop can have left, and only the caller's thread runs.
InitStats ==
    /\ pc = "idle" /\ op = "none" /\ arg = Null /\ ret = NoRet
    /\ ctmp = Null /\ cval = 0 /\ calls = <<>> /\ seen = {}
    /\ r = "open" /\ v \in Voltages /\ measuring = TRUE
    /\ current_measurements = 1
    /\ \E b \in SeqsUpTo(StatSamples, MaxStatLen) \ {<<>>} :
         heap = [i \in ListIds |-> IF i = 1 THEN b ELSE <<>>]
    /\ lpc = "sleep" /\ ltmp = Null /\ samples = <<>>
    /\ startCount = 1 /\ stopCount = 0
    /\ devVoltage = Null /\ devMode = "none"
    /\ closed = FALSE

NextStats ==
    \/ MinCall \/ get_min_current_mA \/ MaxCall \/ get_max_current_mA
    \/ AvgCall \/ AvgSum \/ AvgLoad \/ get_average_current_mA
    \/ ResetCall \/ ResetLast \/ reset_measurements
    \/ Return

SpecStats == InitStats /\ [][NextStats]_vars

\* ================================================================ claims
SameRatio(a, b) == a.num * b.den = b.num * a.den
LeqRatio(a, b) == a.num * b.den <= b.num * a.den

\* the sum of a sequence, added up from its end
RECURSIVE TotalTo(_, _)
TotalTo(b, n) == IF n = 0 THEN 0 ELSE TotalTo(b, n - 1) + b[n]

ReturnedFrom(o) == pc = "ret" /\ op = o /\ ret.kind = "value"

\* C1: once __init__ has created the buffer it is never empty, whatever the
\* interleaving of the loop's appends with resets and statistics calls; and
\* __init__ creates it as the single sample 0.
C1_BufferNeverEmpty ==
    /\ current_measurements # Null => Len(Buffer) >= 1
    /\ pc = "thread" => Buffer = <<0>>

\* C1 witness: a reset has returned while the loop changed the buffer under it
C1_Witness ==
    /\ ReturnedFrom("reset_measurements")
    /\ Cardinality(seen) > 1
    /\ lpc = "store"
    /\ Len(Buffer) >= 1

\* C2: with no append in between, when reset_measurements returns the buffer
\* is exactly the one-element list holding the last sample of the buffer as
\* it was at the call; a reset of a one-element buffer leaves it as it was.
C2_ResetKeepsLast ==
    ReturnedFrom("reset_measurements") =>
        \E b \in seen :
            /\ seen = {b}
            /\ Len(Buffer) = 1
            /\ Buffer[1] = b[Len(b)]
            /\ Len(b) = 1 => Buffer = b

\* C2 witness: [1000, 2000, 3000] has become [3000]
C2_Witness ==
    /\ ReturnedFrom("reset_measurements")
    /\ seen = {<<1000, 2000, 3000>>}
    /\ Buffer = <<3000>>

\* C3: a statistic that is returned is the statistic of one content the
\* buffer had at some instant between the call and the return.
C3_SingleInstant ==
    /\ ReturnedFrom("get_min_current_mA") =>
         \E b \in seen : \E m \in Elems(b) :
             /\ \A y \in Elems(b) : m <= y
             /\ SameRatio(ret.val, Ratio(m, 1000))
    /\ ReturnedFrom("get_max_current_mA") =>
         \E b \in seen : \E m \in Elems(b) :
             /\ \A y \in Elems(b) : m >= y
             /\ SameRatio(ret.val, Ratio(m, 1000))
    /\ ReturnedFrom("get_average_current_mA") =>
         \E b \in seen :
             SameRatio(ret.val, Ratio(TotalTo(b, Len(b)), Len(b) * 1000))

C7_FailedOpenLeavesNothing ==
    pc = "failed" => r # "open" /\ ~ThreadAlive

ModeCommands == {"use_source_meter", "use_ampere_meter"}

\* C8: a mode command is only ever issued right after a set_source_voltage
\* command of the same call, carrying int(v * 1000) for the configured v (so
\* none is issued when that command raised); the device is never in source
\* mode with no voltage programmed; and a setIsSupply that returns has
\* issued the two commands, use_ampere_meter being the second when
\* s is false and use_source_meter when it is true.
C8_VoltageBeforeMode ==
    /\ \A i \in 1..Len(calls) :
         calls[i][1] \in ModeCommands =>
             /\ i > 1
             /\ calls[i - 1][1] = "set_source_voltage"
             /\ calls[i - 1][2] * 1000 <= v
             /\ v < (calls[i - 1][2] + 1) * 1000
             /\ devVoltage = calls[i - 1][2]
    /\ devMode = "use_source_meter" => devVoltage # Null
    /\ ReturnedFrom("setIsSupply") =>
         /\ Len(calls) = 2
         /\ calls[2] = <<IF arg THEN "use_source_meter" ELSE "use_ampere_meter">>
         /\ devMode = calls[2][1]

\* C8 witness: ammeter mode was asked for with 5.0009 V configured
C8_Witness ==
    /\ ReturnedFrom("setIsSupply")
    /\ arg = FALSE
    /\ calls = <<<<"set_source_voltage", 5000>>, <<"use_ampere_meter">>>>

\* C9: a close() that has set the stop signal eventually ends: either a
\* device call raised, or the loop has ended, the join has returned and
\* the base close has run.
C9_CloseTerminates ==
    (pc = "close_stop") ~>
        (/\ pc = "ret" /\ op = "close"
         /\ \/ ret.kind = "raise"
            \/ closed /\ ~ThreadAlive)

\* C9 witness: close() has returned and the loop left at its stop check
C9_Witness ==
    /\ ReturnedFrom("close")
    /\ closed
    /\ lpc = "done"

\* C10: close() clears measuring, then sends stop_measuring, then joins the
\* thread, then runs the base close that releases the handle; the handle is
\* never released while the measurement thread is alive.
C10_CloseOrder ==
    /\ pc \in {"close_stop", "close_join", "close_super"} =>
         op = "close" /\ ~measuring
    /\ pc = "close_stop" => calls = <<>>
    /\ pc = "close_join" => calls = <<<<"stop_measuring">>>>
    /\ pc = "close_super" =>
         /\ calls = <<<<"stop_measuring">>, <<"join">>>>
         /\ ~ThreadAlive
    /\ ReturnedFrom("close") =>
         /\ calls = <<<<"stop_measuring">>, <<"join">>, <<"base_close">>>>
         /\ ~measuring /\ ~ThreadAlive
         /\ r = "released" /\ closed
    /\ r = "released" => ~ThreadAlive /\ stopCount >= 1

\* C10 witness: a close() has run all four steps
C10_Witness ==
    /\ ReturnedFrom("close")
    /\ calls = <<<<"stop_measuring">>, <<"join">>, <<"base_close">>>>
    /\ r = "released"
    /\ stopCount = 1

StatOps == {"get_min_current_mA", "get_max_current_mA",
            "get_average_current_mA", "reset_measurements"}

\* C11: when a step of close() has raised, the measurement thread has ended
\* and been joined and the device handle has been released all the same.
C11_FailedCloseStillReleases ==
    (pc = "ret" /\ op = "close" /\ ret.kind = "raise") =>
        ~ThreadAlive /\ r = "released"

\* C12: once the session is closed, a statistics query or a reset ends with
\* an error, a further close() is refused before it does anything, and the
\* device never receives a second stop_measuring.
C12_FailFastAfterClose ==
    /\ (closed /\ pc = "ret" /\ op \in StatOps) => ret.kind = "raise"
    /\ closed => pc \notin {"close_stop", "close_join", "close_super"}
    /\ stopCount <= 1

\* C13: a get_samples call that fails does not end the loop: from the decode
\* step the loop goes on to the append or to the sleep of that iteration.
C13_DecodeFailureNonFatal ==
    [][lpc = "decode" => lpc' \in {"decode", "load", "sleep"}]_vars

\* C14: the device receives start_measuring once, before the thread polls,
\* and stop_measuring once, whatever the caller does (closing twice
\* included).
C14_StartStopOnce ==
    /\ startCount <= 1
    /\ lpc # "none" => startCount = 1
    /\ stopCount <= 1
    /\ closed => stopCount = 1

\* C15: a step of the caller's thread changes the buffer only when it is the
\* store of reset_measurements, which leaves one sample that was in the
\* buffer; the statistics, setIsSupply, powerOn, powerOff and close never
\* change it.
C15_OnlyLoopAppends ==
    [][(current_measurements # Null /\ lpc' = lpc /\ Buffer' # Buffer) =>
           /\ pc = "reset_store" /\ op = "reset_measurements"
           /\ Len(Buffer') = 1
           /\ Buffer'[1] \in Elems(Buffer)]_vars

\* C15 witness: powerOn has returned with the loop running, history in place
C15_Witness ==
    /\ ReturnedFrom("powerOn")
    /\ calls = <<<<"toggle_DUT_power", "ON">>>>
    /\ ThreadAlive
    /\ Len(Buffer) = 3

\* C16: once the thread has been started, measuring never goes from False
\* back to True, a thread that has ended is never restarted, no thread is
\* started but the one of __init__, and a closed session stays closed.
C16_NoWayBack ==
    [][/\ (lpc # "none" /\ ~measuring) => ~measuring'
       /\ lpc \in {"done", "crashed"} => lpc' = lpc
       /\ (lpc' = "check" /\ lpc # "check") =>
              \/ lpc = "sleep"
              \/ lpc = "none" /\ pc = "thread"
       /\ lpc # "none" => lpc' # "none"
       /\ closed => closed']_vars

\* C16 witness: a second close() has run on the closed session
C16_Witness ==
    /\ ReturnedFrom("close")
    /\ closed /\ ~measuring
    /\ stopCount = 2
    /\ lpc = "done"

\* the list the loop is about to store back, as it was before the append
BeforeAppend == SubSeq(heap[ltmp], 1, Len(heap[ltmp]) - Len(samples))

\* C17: a reset and an append that overlap leave the buffer as one of the
\* two serial orders would.  When the loop stores its list back over a list
\* a reset has installed meanwhile, the result is the last sample from before
\* the append followed by the appended samples, or the newest sample alone;
\* and when a reset stores its list with no append in flight, the sample it
\* keeps is the last one of the buffer it replaces.
C17_ResetAppendSerial ==
    [][/\ (lpc = "store" /\ lpc' = "sleep" /\ ltmp # current_measurements) =>
              \/ Buffer' = <<Last(BeforeAppend)>> \o samples
              \/ Buffer' = <<Last(heap[ltmp])>>
       /\ (pc = "reset_store" /\ pc' = "ret" /\ lpc \notin {"extend", "store"}) =>
              Buffer' = <<Last(Buffer)>>]_vars

C19_SuffixExtension ==
    [][(current_measurements # Null /\ lpc' # lpc) =>
           \/ Buffer' = Buffer
           \/ lpc = "extend" /\ Buffer' = Buffer \o samples]_vars

\* C20: once the base close has run, the measurement thread has ended: it
\* takes no further step (no poll, no decode) and the buffer changes only by
\* a reset of the caller.
C20_NoLoopAfterClose ==
    [][closed =>
           /\ lpc \in {"done", "crashed"}
           /\ lpc' = lpc
           /\ Buffer' # Buffer => pc = "reset_store"]_vars

\* C20 witness: close() has returned, the loop having left at its check
C20_Witness ==
    /\ ReturnedFrom("close")
    /\ closed /\ r = "released"
    /\ lpc = "done"
    /\ Len(Buffer) >= 2

\* C20: stop_measuring has been sent and the loop is about to poll
C20_PollAfterStop ==
    /\ pc = "close_join"
    /\ stopCount = 1
    /\ lpc = "poll"

====
